---- MODULE Spec2Model ----
(***************************************************************************)
(* Sveti AI tutor: the chat hooks (useRealChatFixed of the App, and the    *)
(* useRealChat hook), the useGamePrefs personalization hook, message       *)
(* persistence in localStorage and prompt composition.                     *)
(*                                                                         *)
(* One action is one browser event: the handler (or the resumed async      *)
(* continuation), the React re-render it causes and the effects that run   *)
(* after that render, up to the point where the page is idle again.        *)
(*                                                                         *)
(* Text is a sequence of one-character strings, so that the regular        *)
(* expressions and substring tests of the source are computed on the       *)
(* characters.  Fixed literals of the source that are never scanned (the   *)
(* clarifying question, the prompts) are kept as one element.              *)
(***************************************************************************)
EXTENDS Integers, Sequences, FiniteSets, TLC

VARIABLES
    hook,          \* which chat hook the App is built with
    subject,       \* App state: selected subject
    learningStyle, \* App state: selected learning style
    messages,      \* hook state: the in-memory message sequence
    isLoading,     \* hook state: loading flag
    gamePrefs,     \* useGamePrefs state: stored preference list
    asked,         \* useGamePrefs state: clarifying question asked
    prefersGames,  \* useGamePrefs state: "null" | "true" | "false"
    storage,       \* localStorage: key -> entry
    timers,        \* pending setTimeout callbacks, in firing order
    pending,       \* completion calls in flight
    closure,       \* the values the current sendMessage callback captured
    now,           \* wall clock, milliseconds
    switchedBusy,  \* history: a subject switch happened with a call or delay pending
    probe,         \* history: one remembered prompt composition
    failing,       \* environment: the localStorage methods that throw when called
    escaped,       \* history: the operation an exception escaped from, or "null"
    util           \* history: the last call of a function of utils/openai.js

vars == <<hook, subject, learningStyle, messages, isLoading, gamePrefs, asked,
          prefersGames, storage, timers, pending, closure, now, switchedBusy,
          probe, failing, escaped, util>>

-----------------------------------------------------------------------------
(* Bounds of the model *)

MaxLen == 2
MaxGateLen == 7
MaxResumeLen == 6
MaxBusyLen == 4
MaxLiveLen == 3
MaxMessages == 2
MaxPrefLen == 7
MaxWindowLen == 12
MaxMockLen == 10
MaxTicks == 1
TickMs == 1700
TimeOrigin == 1500

-----------------------------------------------------------------------------
(* Generic helpers *)

Null == "null"

HookFixed == "useRealChatFixed"
HookReal == "useRealChat"
Hooks == {HookFixed, HookReal}
\* the useRealChat of hooks/useGamePrefs.js: the gate of useRealChatFixed in
\* front of mock answers
HookMock == "useRealChat (mock answers)"

Subjects == <<"algebra", "english">>
SubjectSet == {Subjects[i] : i \in 1..Len(Subjects)}

RECURSIVE SeqMap(_, _)
SeqMap(Op(_), s) ==
    IF s = <<>> THEN <<>> ELSE <<Op(Head(s))>> \o SeqMap(Op, Tail(s))

RECURSIVE SeqFilter(_, _)
SeqFilter(Test(_), s) ==
    IF s = <<>> THEN <<>>
    ELSE (IF Test(Head(s)) THEN <<Head(s)>> ELSE <<>>) \o SeqFilter(Test, Tail(s))

\* Array.prototype.slice(0, n)
SliceFirst(s, n) == SubSeq(s, 1, IF Len(s) < n THEN Len(s) ELSE n)

\* Array.prototype.slice(-n)
SliceLast(s, n) == SubSeq(s, (IF Len(s) > n THEN Len(s) - n + 1 ELSE 1), Len(s))

Last(s) == s[Len(s)]

\* String.prototype.includes: pat occurs in text as a contiguous run
Includes(text, pat) ==
    \E i \in 1..(Len(text) - Len(pat) + 1) : SubSeq(text, i, i + Len(pat) - 1) = pat

\* String.prototype.toLowerCase
UpperChars ==
    <<"A", "B", "C", "D", "E", "F", "G", "H", "I", "J", "K", "L", "M", "N", "O", "P", "Q", "R", "S", "T", "U", "V", "W", "X", "Y", "Z">>
LowerChars ==
    <<"a", "b", "c", "d", "e", "f", "g", "h", "i", "j", "k", "l", "m", "n", "o", "p", "q", "r", "s", "t", "u", "v", "w", "x", "y", "z">>
DigitChars ==
    <<"0", "1", "2", "3", "4", "5", "6", "7", "8", "9">>
LowerChar(c) ==
    IF \E i \in 1..Len(UpperChars) : UpperChars[i] = c
    THEN LowerChars[CHOOSE i \in 1..Len(UpperChars) : UpperChars[i] = c]
    ELSE c
ToLowerCase(text) == [i \in 1..Len(text) |-> LowerChar(text[i])]

IsSpace(c) == c = " "

\* the regular-expression class \w, and \b around the run text[i..j] of word characters
IsWordChar(c) ==
    \/ \E i \in 1..Len(UpperChars) : UpperChars[i] = c
    \/ \E i \in 1..Len(LowerChars) : LowerChars[i] = c
    \/ \E i \in 1..Len(DigitChars) : DigitChars[i] = c
    \/ c = "_"
WholeWordAt(text, i, j) ==
    /\ (i = 1 \/ ~IsWordChar(text[i - 1]))
    /\ (j = Len(text) \/ ~IsWordChar(text[j + 1]))

\* String.prototype.trim
RECURSIVE TrimStart(_)
TrimStart(text) ==
    IF text # <<>> /\ IsSpace(Head(text)) THEN TrimStart(Tail(text)) ELSE text
RECURSIVE TrimEnd(_)
TrimEnd(text) ==
    IF text # <<>> /\ IsSpace(Last(text))
    THEN TrimEnd(SubSeq(text, 1, Len(text) - 1)) ELSE text
Trim(text) == TrimEnd(TrimStart(text))

\* Array.prototype.join with a separator
RECURSIVE Join(_, _)
Join(parts, sep) ==
    IF parts = <<>> THEN <<>>
    ELSE IF Len(parts) = 1 THEN parts[1]
    ELSE parts[1] \o sep \o Join(Tail(parts), sep)

\* Array.from(new Set(arr)): first occurrences, in order
RECURSIVE Dedupe(_)
Dedupe(s) ==
    IF s = <<>> THEN <<>>
    ELSE LET rest == Dedupe(SubSeq(s, 1, Len(s) - 1))
         IN IF \E i \in 1..Len(rest) : rest[i] = Last(s) THEN rest
            ELSE Append(rest, Last(s))

-----------------------------------------------------------------------------
(* localStorage: string-valued entries.  An entry is absent, a plain       *)
(* string, or the JSON text of an array (of messages, or of labels).       *)

Absent == [kind |-> "absent"]
StrEntry(s) == [kind |-> "str", str |-> s]
JsonMessages(msgs) == [kind |-> "messages", items |-> msgs]
JsonLabels(labels) == [kind |-> "labels", items |-> labels]

getStorageKey(subj) == "sveti-messages-" \o subj

LS_KEYS ==
    [prefs |-> "sveti-game-prefs", asked |-> "sveti-game-asked",
     prefers |-> "sveti-prefers-games"]
StyleKey == "sveti-learning-style"

StorageKeys ==
    {getStorageKey(s) : s \in SubjectSet}
        \cup {LS_KEYS.prefs, LS_KEYS.asked, LS_KEYS.prefers, StyleKey}

setItem(st, key, entry) == [st EXCEPT ![key] = entry]
removeItem(st, key) == [st EXCEPT ![key] = Absent]

\* the localStorage methods; a call of a method in failing throws (a full
\* quota, storage denied to the page)
StorageMethods == {"getItem", "setItem", "removeItem"}
Throws(method) == method \in failing

\* Date.prototype.toISOString and new Date(isoText): an instant is a number
\* of milliseconds, its ISO text carries the seconds and the milliseconds
toISOString(t) == [sec |-> t \div 1000, ms |-> t % 1000]
DateParse(iso) == iso.sec * 1000 + iso.ms

\* a faulty variant of MessageForStorage: the instant of saving is written
\* (timestamp: new Date().toISOString()) in place of the message's own
MessageForStorageStampedAtSave(msg) == [msg EXCEPT !.timestamp = toISOString(now)]

\* one message for storage / restored from storage (the other fields are kept)
MessageForStorage(msg) == [msg EXCEPT !.timestamp = toISOString(msg.timestamp)]
MessageWithDate(msg) == [msg EXCEPT !.timestamp = DateParse(msg.timestamp)]

-----------------------------------------------------------------------------
(* useGamePrefs *)

NegationWords ==
    {<<"n", "o">>, <<"n", "o", "n", "e">>, <<"n", "o", "t">>,
     <<"n", "a", "h">>, <<"n", "o", "p", "e">>}

\* /\b(no|none|not|nah|nope)\b/.test(lowered)
HasNegation(lowered) ==
    \E i \in 1..Len(lowered) : \E j \in i..Len(lowered) :
        /\ SubSeq(lowered, i, j) \in NegationWords
        /\ WholeWordAt(lowered, i, j)

AndSeparator == <<" ", "a", "n", "d", " ">>

\* text.split(/,| and /i)
RECURSIVE SplitGames(_, _)
SplitGames(text, cur) ==
    IF text = <<>> THEN <<cur>>
    ELSE IF Head(text) = "," THEN <<cur>> \o SplitGames(Tail(text), <<>>)
    ELSE IF /\ Len(text) >= Len(AndSeparator)
            /\ [i \in 1..Len(AndSeparator) |-> LowerChar(text[i])] = AndSeparator
         THEN <<cur>> \o SplitGames(SubSeq(text, Len(AndSeparator) + 1, Len(text)), <<>>)
    ELSE SplitGames(Tail(text), Append(cur, Head(text)))

NonEmpty(s) == s # <<>>

MaxPrefs == 2

parseGamesFromText(text) ==
    IF text = <<>> THEN <<>>
    ELSE IF HasNegation(ToLowerCase(text)) THEN <<>>
    ELSE SliceFirst(SeqFilter(NonEmpty, SeqMap(Trim, SplitGames(text, <<>>))), MaxPrefs)

\* a faulty variant of setGamePrefs: the Set that drops repeated labels is
\* left out
setGamePrefsKeepingRepeats(arr) ==
    SliceFirst(SeqFilter(NonEmpty, SeqMap(Trim, arr)), MaxPrefs)

\* the list setGamePrefs(arr) stores in state and under LS_KEYS.prefs
setGamePrefs(arr) ==
    SliceFirst(SeqFilter(NonEmpty, Dedupe(SeqMap(Trim, arr))), MaxPrefs)

hasPrefs(prefs) == Len(prefs) > 0

\* the text setAsked(v) and setPrefers(v) store
AskedText(v) == IF v THEN "true" ELSE "false"
\* a faulty variant of PrefersText: the status is stored as the empty string
PrefersTextEmpty(v) == ""
PrefersText(v) == IF v = Null THEN "" ELSE v

\* the useState initialisers: state read back from the three entries
readJSON(entry, fallback) == IF entry.kind = "labels" THEN entry.items ELSE fallback
InitialGamePrefs(st) == readJSON(st[LS_KEYS.prefs], <<>>)
\* a faulty variant of InitialAsked: the entry is not read
InitialAskedForgotten(st) == FALSE
InitialAsked(st) == st[LS_KEYS.asked] = StrEntry("true")
InitialPrefers(st) ==
    IF st[LS_KEYS.prefers] = StrEntry("true") THEN "true"
    ELSE IF st[LS_KEYS.prefers] = StrEntry("false") THEN "false"
    ELSE Null

\* resetGamePrefs: the three removeItem calls
resetGamePrefsKeepingAsked(st) ==
    removeItem(removeItem(st, LS_KEYS.prefs), LS_KEYS.prefers)

resetGamePrefs(st) ==
    removeItem(removeItem(removeItem(st, LS_KEYS.prefs), LS_KEYS.asked), LS_KEYS.prefers)

-----------------------------------------------------------------------------
(* Prompt composition *)

\* the keys of systemPrompts and of each subject's actions table
PromptSubjects == {"algebra", "ela"}
PromptActions(subj) ==
    IF subj = "algebra" THEN {"explain", "steps", "practice", "check"}
    ELSE {"brainstorm", "outline", "improve", "grammar"}

\* the prompt text, as the sequence of the literal blocks it is built from
getSystemPrompt(subj, actionType) ==
    IF subj \notin PromptSubjects THEN <<"systemPrompts.algebra.base">>
    ELSE IF actionType # Null /\ actionType \in PromptActions(subj)
         THEN <<"systemPrompts." \o subj \o ".base",
                "SPECIAL INSTRUCTION FOR THIS INTERACTION:",
                "systemPrompts." \o subj \o ".actions." \o actionType>>
         ELSE <<"systemPrompts." \o subj \o ".base">>

\* the action types of the chips InputArea shows for a subject
getActionChips(subj) ==
    IF subj = "algebra" THEN {"explain", "steps", "practice", "check"}
    ELSE {"brainstorm", "outline", "improve", "grammar"}

StyleKeys == {"visual", "reading", "examples", "socratic", "analogies"}

getLearningStylePrompt(styleKey) ==
    IF styleKey \in StyleKeys THEN "learningStyles." \o styleKey \o ".promptModifier"
    ELSE "learningStyles.visual.promptModifier"

\* the if-chain of the topic detector of sendMessage, on the lower-cased text
DetectTopic(userText) ==
    IF \/ Includes(userText, <<"%">>)
       \/ Includes(userText, <<"p", "e", "r", "c", "e", "n", "t">>)
       \/ Includes(userText, <<"d", "i", "s", "c", "o", "u", "n", "t">>)
    THEN "percentChange"
    ELSE IF Includes(userText, <<"r", "a", "t", "i", "o">>) \/ Includes(userText, <<"p", "r", "o", "p", "o", "r", "t", "i", "o", "n">>)
    THEN "ratios"
    ELSE IF \/ Includes(userText, <<"l", "i", "n", "e", "a", "r">>)
            \/ Includes(userText, <<"s", "l", "o", "p", "e">>)
            \/ Includes(userText, <<"y", "=">>)
    THEN "linearEq"
    ELSE Null

\* a faulty variant of TopicOf: nextMessages.at(-2), the message before the
\* latest one, is read
TopicOfPrevious(latestText) ==
    DetectTopic(IF closure.messages = <<>> THEN <<>>
                ELSE ToLowerCase(Last(closure.messages).content))

\* the topic of the student's latest message
TopicOf(latestText) == DetectTopic(ToLowerCase(latestText))

GAME_TEMPLATES(topicKey, game) == <<"GAME_TEMPLATES." \o topicKey \o "(">> \o game \o <<")">>

pickGameForContext(prefs) == IF Len(prefs) > 0 THEN prefs[1] ELSE <<>>

\* buildSystemWithGames of config/prompts: the base block, and when a game is
\* known a clause naming it and the template of the detected topic
buildSystemWithGames(baseSystemPrompt, styleBlock, prefs, topicKey) ==
    LET game == pickGameForContext(prefs)
    IN IF game = <<>> THEN baseSystemPrompt
       ELSE baseSystemPrompt \o <<"GAME CONTEXT:">> \o game
              \o (IF topicKey = Null THEN <<>> ELSE GAME_TEMPLATES(topicKey, game))

\* the system message useRealChatFixed.sendMessage composes
SystemContentFixed(subj, actionType, style, prefs, latestText) ==
    LET basePrompt == getSystemPrompt(subj, actionType)
        stylePrompt == getLearningStylePrompt(style)
        baseSystemPrompt == basePrompt \o <<"TEACHING STYLE:", stylePrompt>>
    IN buildSystemWithGames(baseSystemPrompt, stylePrompt, prefs,
                            TopicOf(latestText))

\* the system message useRealChat.buildAPIMessages composes
SystemContentReal(subj, actionType, style) ==
    getSystemPrompt(subj, actionType)
        \o <<"TEACHING STYLE ADAPTATION:", getLearningStylePrompt(style),
             "Apply this teaching style to all your explanations while maintaining your educational role.">>

-----------------------------------------------------------------------------
(* Messages *)

\* role, content, timestamp and the optional error flag are the fields of the
\* source; gate and origin are history fields: what the gate made of the
\* message, and the subject that was selected when it was appended
Message(role, content, ts, error, gate, origin) ==
    [role |-> role, content |-> content, timestamp |-> ts, error |-> error,
     gate |-> gate, origin |-> origin]

IsUser(msg) == msg.role = "user"
NotSystem(msg) == msg.role # "system"

AskContent ==
    <<"Quick check: are you into any video games? If yes, name one or two. If not, just say 'no'.">>
AckAccepted(gamesToShow) ==
    <<"Got it - I'll use ">> \o gamesToShow
        \o <<" for examples. Want to try a practice problem?">>
AckDeclined ==
    <<"No problem - I'll stick to neutral examples. Want a practice problem?">>

\* g.replace(/i'?m|into|right now|playing/gi, "")
FillerPatterns ==
    <<<<"i", "'", "m">>, <<"i", "m">>, <<"i", "n", "t", "o">>, <<"r", "i", "g", "h", "t", " ", "n", "o", "w">>, <<"p", "l", "a", "y", "i", "n", "g">>>>
MatchesAt(text, pat) ==
    /\ Len(text) >= Len(pat)
    /\ [i \in 1..Len(pat) |-> LowerChar(text[i])] = pat
RECURSIVE StripFiller(_)
StripFiller(text) ==
    IF text = <<>> THEN <<>>
    ELSE IF \E k \in 1..Len(FillerPatterns) : MatchesAt(text, FillerPatterns[k])
         THEN LET k == CHOOSE k \in 1..Len(FillerPatterns) :
                          /\ MatchesAt(text, FillerPatterns[k])
                          /\ \A l \in 1..(k - 1) : ~MatchesAt(text, FillerPatterns[l])
              IN StripFiller(SubSeq(text, Len(FillerPatterns[k]) + 1, Len(text)))
         ELSE <<Head(text)>> \o StripFiller(Tail(text))

CleanGame(g) == Trim(StripFiller(g))

\* a faulty variant of GamesToShow: the labels are shown as parsed
GamesToShowRaw(parsed) == Join(parsed, <<",", " ">>)

\* gamesToShow of the acknowledgment
GamesToShow(parsed) ==
    LET cleanGames == SeqFilter(NonEmpty, SeqMap(CleanGame, parsed))
    IN IF Len(cleanGames) > 0 THEN Join(cleanGames, <<",", " ">>)
       ELSE Join(parsed, <<",", " ">>)

\* the fallback answer of useRealChatFixed when the completion call fails
FallbackResponse(style, content, subj) ==
    <<"[fallback " \o (IF style \in StyleKeys THEN style ELSE "visual") \o "] \"">>
        \o content \o <<"\" in " \o subj>>

-----------------------------------------------------------------------------
(* The load and save effects *)

\* useRealChatFixed, save effect: runs after a render whose messages or
\* subject changed, with that render's messages and subject; a throwing
\* setItem is caught
SaveEffect(st, subj, msgs) ==
    IF Len(msgs) > 0 /\ ~Throws("setItem")
    THEN setItem(st, getStorageKey(subj), JsonMessages(SeqMap(MessageForStorage, msgs)))
    ELSE st

\* useRealChatFixed, load effect: the sequence in memory after it ran for
\* subj (current is kept when the effect calls no setMessages); the catch
\* block sets the empty sequence
LoadEffect(st, subj, current) ==
    LET saved == st[getStorageKey(subj)]
    IN IF Throws("getItem") THEN <<>>
       ELSE IF saved.kind = "messages" THEN SeqMap(MessageWithDate, saved.items)
       ELSE IF saved.kind = "str" /\ saved.str # "" THEN <<>>
       ELSE current

\* useRealChat; a throwing setItem is caught
saveMessagesForSubject(st, subj, msgs) ==
    IF Len(msgs) = 0 \/ Throws("setItem") THEN st
    ELSE setItem(st, getStorageKey(subj), JsonMessages(SeqMap(MessageForStorage, msgs)))

\* useRealChat: the restored sequence, and the storage it leaves (the catch
\* block removes the entry; threw: its removeItem threw in turn)
loadMessagesForSubject(st, subj) ==
    LET savedMessages == st[getStorageKey(subj)]
        caught == IF Throws("removeItem")
                  THEN [messages |-> <<>>, storage |-> st, threw |-> TRUE]
                  ELSE [messages |-> <<>>, storage |-> removeItem(st, getStorageKey(subj)),
                        threw |-> FALSE]
    IN IF Throws("getItem") THEN caught
       ELSE IF savedMessages.kind = "messages"
       THEN [messages |-> SeqMap(MessageWithDate, savedMessages.items), storage |-> st,
             threw |-> FALSE]
       ELSE IF savedMessages.kind = "str" /\ savedMessages.str # "" THEN caught
       ELSE [messages |-> <<>>, storage |-> st, threw |-> FALSE]

\* the effects after a render in which only messages changed
Persist(h, st, subj, msgs) ==
    IF h = HookFixed THEN SaveEffect(st, subj, msgs)
    ELSE saveMessagesForSubject(st, subj, msgs)

\* the effects after the render in which the subject became subj while msgs
\* was in memory: the load effect reads, the save effect of the same render
\* writes msgs, and the render the load causes saves what was loaded
SubjectEffects(h, st, subj, msgs) ==
    IF h = HookFixed
    THEN LET loaded == LoadEffect(st, subj, msgs)
         IN [messages |-> loaded,
             storage |-> SaveEffect(SaveEffect(st, subj, msgs), subj, loaded),
             threw |-> FALSE]
    ELSE LET l == loadMessagesForSubject(st, subj)
         IN IF l.threw
            THEN [messages |-> msgs, storage |-> st, threw |-> TRUE]
            ELSE [messages |-> l.messages,
                  storage |-> saveMessagesForSubject(
                                  saveMessagesForSubject(l.storage, subj, msgs),
                                  subj, l.messages),
                  threw |-> FALSE]

-----------------------------------------------------------------------------
(* The sendMessage callback and what it captured *)

\* the dependency array of the sendMessage callback, as the state it names
SendMessageDeps(h) ==
    IF h = HookFixed THEN {"subject", "learningStyle", "messages", "isLoading"}
    ELSE IF h = HookMock THEN {"isLoading", "subject", "learningStyle"}
    ELSE {"messages", "subject", "learningStyle"}

Captured(msgs, loading, ask, prefs, subj, style) ==
    [messages |-> msgs, isLoading |-> loading, asked |-> ask, gamePrefs |-> prefs,
     subject |-> subj, learningStyle |-> style]

\* the callback is created again in a render in which a dependency changed;
\* setMessages always installs a new array
Recapture(setMessagesCalled) ==
    LET deps == SendMessageDeps(hook)
        changed ==
            \/ "messages" \in deps /\ setMessagesCalled
            \/ "subject" \in deps /\ subject' # subject
            \/ "learningStyle" \in deps /\ learningStyle' # learningStyle
            \/ "isLoading" \in deps /\ isLoading' # isLoading
    IN closure' = IF changed
                  THEN Captured(messages', isLoading', asked', gamePrefs',
                                subject', learningStyle')
                  ELSE closure

AskAfter == 3
ContextWindow == 10

ApiMessage(msg) == [role |-> msg.role, content |-> msg.content]

\* a completion call in flight: the request, and what the continuation uses
\* when it resumes.  gates and inputs are history fields: the gate marks of
\* the context messages, and the inputs the instructions were composed for
Call(system, context, content, subj, style, inputs) ==
    [system |-> system, context |-> SeqMap(ApiMessage, context),
     content |-> content, subject |-> subj, learningStyle |-> style,
     gates |-> [i \in 1..Len(context) |-> context[i].gate], inputs |-> inputs]

Inputs(subj, actionType, style, prefs, text) ==
    [subject |-> subj, actionType |-> actionType, learningStyle |-> style,
     gamePrefs |-> prefs, text |-> text]

NoProbe == [set |-> FALSE]

\* the clock after an event that read it: time has passed when the next
\* event reads it (the model stops the clock after MaxTicks ticks)
LateInstant == TimeOrigin + MaxTicks * TickMs
Advance(t) == IF t < LateInstant THEN t + TickMs ELSE t

RemoveAt(s, i) == SubSeq(s, 1, i - 1) \o SubSeq(s, i + 1, Len(s))

-----------------------------------------------------------------------------
(* JavaScript values, as far as utils/openai.js tells them apart *)

JsUndefined == [t |-> "undefined"]
JsNull == [t |-> "null"]
JsString(s) == [t |-> "string", str |-> s]
JsNumber(n) == [t |-> "number", num |-> n]
JsArray(items) == [t |-> "array", items |-> items]
\* an object, by the properties the code reads (a missing one is undefined)
JsMessage(role, content) == [t |-> "object", role |-> role, content |-> content]
JsError(status, code, message) ==
    [t |-> "object", status |-> status, code |-> code, message |-> message]

\* !v
Falsy(v) ==
    \/ v.t \in {"undefined", "null"}
    \/ v.t = "string" /\ v.str = <<>>
    \/ v.t = "number" /\ v.num = 0

NoCall == [fn |-> "none"]

-----------------------------------------------------------------------------
(* The completion wrapper's results, and useRealChat's error sentences *)

ErrInvalidKey ==
    <<"I", "n", "v", "a", "l", "i", "d", " ", "O", "p", "e", "n", "A", "I",
      " ", "A", "P", "I", " ", "k", "e", "y", ".", " ", "P", "l", "e", "a",
      "s", "e", " ", "c", "h", "e", "c", "k", " ", "y", "o", "u", "r", " ",
      "A", "P", "I", " ", "k", "e", "y", " ", "i", "n", " ", "t", "h", "e",
      " ", ".", "e", "n", "v", " ", "f", "i", "l", "e", ".">>
ErrRateLimit ==
    <<"R", "a", "t", "e", " ", "l", "i", "m", "i", "t", " ", "e", "x", "c",
      "e", "e", "d", "e", "d", ".", " ", "P", "l", "e", "a", "s", "e", " ",
      "w", "a", "i", "t", " ", "a", " ", "m", "o", "m", "e", "n", "t", " ",
      "b", "e", "f", "o", "r", "e", " ", "t", "r", "y", "i", "n", "g", " ",
      "a", "g", "a", "i", "n", ".">>
ErrQuota ==
    <<"O", "p", "e", "n", "A", "I", " ", "a", "c", "c", "o", "u", "n", "t",
      " ", "q", "u", "o", "t", "a", " ", "e", "x", "c", "e", "e", "d", "e",
      "d", ".", " ", "P", "l", "e", "a", "s", "e", " ", "c", "h", "e", "c",
      "k", " ", "y", "o", "u", "r", " ", "b", "i", "l", "l", "i", "n", "g",
      " ", "s", "e", "t", "t", "i", "n", "g", "s", ".">>
ErrUnavailable ==
    <<"O", "p", "e", "n", "A", "I", " ", "s", "e", "r", "v", "i", "c", "e",
      " ", "i", "s", " ", "t", "e", "m", "p", "o", "r", "a", "r", "i", "l",
      "y", " ", "u", "n", "a", "v", "a", "i", "l", "a", "b", "l", "e", ".",
      " ", "P", "l", "e", "a", "s", "e", " ", "t", "r", "y", " ", "a", "g",
      "a", "i", "n", " ", "l", "a", "t", "e", "r", ".">>
ErrNetwork ==
    <<"N", "e", "t", "w", "o", "r", "k", " ", "e", "r", "r", "o", "r", ".",
      " ", "P", "l", "e", "a", "s", "e", " ", "c", "h", "e", "c", "k", " ",
      "y", "o", "u", "r", " ", "i", "n", "t", "e", "r", "n", "e", "t", " ",
      "c", "o", "n", "n", "e", "c", "t", "i", "o", "n", " ", "a", "n", "d",
      " ", "t", "r", "y", " ", "a", "g", "a", "i", "n", ".">>
WrapperErrors == {ErrInvalidKey, ErrRateLimit, ErrQuota, ErrUnavailable, ErrNetwork}

KeyPlaceholder ==
    <<"s", "k", "-", "y", "o", "u", "r", "-", "k", "e", "y", "-", "g", "o",
      "e", "s", "-", "h", "e", "r", "e">>
ErrNotConfigured ==
    <<"O", "p", "e", "n", "A", "I", " ", "A", "P", "I", " ", "k", "e", "y",
      " ", "n", "o", "t", " ", "c", "o", "n", "f", "i", "g", "u", "r", "e",
      "d", ".", " ", "P", "l", "e", "a", "s", "e", " ", "a", "d", "d", " ",
      "y", "o", "u", "r", " ", "A", "P", "I", " ", "k", "e", "y", " ", "t",
      "o", " ", "t", "h", "e", " ", ".", "e", "n", "v", " ", "f", "i", "l",
      "e", ".">>
ErrMessagesRequired ==
    <<"M", "e", "s", "s", "a", "g", "e", "s", " ", "a", "r", "r", "a", "y",
      " ", "i", "s", " ", "r", "e", "q", "u", "i", "r", "e", "d", " ", "a",
      "n", "d", " ", "c", "a", "n", "n", "o", "t", " ", "b", "e", " ", "e",
      "m", "p", "t", "y", ".">>
ErrNoContent ==
    <<"N", "o", " ", "r", "e", "s", "p", "o", "n", "s", "e", " ", "c", "o",
      "n", "t", "e", "n", "t", " ", "r", "e", "c", "e", "i", "v", "e", "d",
      " ", "f", "r", "o", "m", " ", "O", "p", "e", "n", "A", "I", ".">>
ErrUnexpected ==
    <<"A", "n", " ", "u", "n", "e", "x", "p", "e", "c", "t", "e", "d", " ",
      "e", "r", "r", "o", "r", " ", "o", "c", "c", "u", "r", "r", "e", "d",
      ".", " ", "P", "l", "e", "a", "s", "e", " ", "t", "r", "y", " ", "a",
      "g", "a", "i", "n", " ", "l", "a", "t", "e", "r", ".">>

\* v[name] of JavaScript: undefined for a property the value does not have
Prop(v, name) == IF name \in DOMAIN v THEN v[name] ELSE JsUndefined
Nullish(v) == v.t \in {"undefined", "null"}
\* the error object a failed property read or method call throws
TypeError(message) == JsError(JsUndefined, JsUndefined, JsString(message))
TypeErrorText == <<"C", "a", "n", "n", "o", "t", " ", "r", "e", "a", "d">>

\* what the awaited endpoint call does
Resolves(v) == [settled |-> "resolved", value |-> v]
Rejects(e) == [settled |-> "rejected", value |-> e]

\* how a block ends: it returns the result object, or an exception leaves it
Returned(content, error, called) ==
    [done |-> "return", content |-> content, error |-> error, called |-> called]
Thrown(error, called) ==
    [done |-> "throw", content |-> JsUndefined, error |-> error, called |-> called]

ValidMessagesArgumentAnyArray(msgs) == msgs.t = "array"

\* Array.isArray(messages) && messages.length !== 0
ValidMessagesArgument(msgs) ==
    msgs.t = "array" /\ Len(msgs.items) # 0

\* const content = response.choices[0]?.message?.content; the statements
\* after it, up to the return
AfterResponse(response) ==
    IF Nullish(response) \/ Nullish(Prop(response, "choices"))
    THEN Thrown(TypeError(TypeErrorText), TRUE)
    ELSE LET choices == Prop(response, "choices")
             first == IF choices.t = "array" /\ Len(choices.items) > 0
                      THEN choices.items[1] ELSE JsUndefined
             message == IF Nullish(first) THEN JsUndefined ELSE Prop(first, "message")
             content == IF Nullish(message) THEN JsUndefined ELSE Prop(message, "content")
         IN IF Falsy(content) THEN Returned(JsNull, JsString(ErrNoContent), TRUE)
            ELSE IF content.t # "string" THEN Thrown(TypeError(TypeErrorText), TRUE)
            ELSE Returned(JsString(Trim(content.str)), JsNull, TRUE)

\* the try block
TryBlock(key, msgs, endpoint) ==
    IF Falsy(key) \/ key = JsString(KeyPlaceholder)
    THEN Returned(JsNull, JsString(ErrNotConfigured), FALSE)
    ELSE IF ~ValidMessagesArgument(msgs)
    THEN Returned(JsNull, JsString(ErrMessagesRequired), FALSE)
    ELSE IF endpoint.settled = "rejected" THEN Thrown(endpoint.value, TRUE)
    ELSE AfterResponse(endpoint.value)

\* error.message?.includes('fetch')
MessageIncludesFetch(error) ==
    LET message == Prop(error, "message")
    IN message.t = "string" /\ Includes(message.str, <<"f", "e", "t", "c", "h">>)

\* the catch block
CatchBlock(error, called) ==
    LET status == Prop(error, "status")
        text == IF status = JsNumber(401) THEN ErrInvalidKey
                ELSE IF status = JsNumber(429) THEN ErrRateLimit
                ELSE IF status = JsNumber(402) THEN ErrQuota
                ELSE IF status = JsNumber(503) THEN ErrUnavailable
                ELSE IF \/ Prop(error, "code") = JsString(<<"NETWORK_ERROR">>)
                        \/ MessageIncludesFetch(error)
                THEN ErrNetwork
                ELSE ErrUnexpected
    IN Returned(JsNull, JsString(text), called)

\* sendMessage of utils/openai.js: threw tells whether the promise rejects
sendOpenAIMessage(key, msgs, options, endpoint) ==
    LET tried == TryBlock(key, msgs, endpoint)
        ended == IF tried.done = "throw" THEN CatchBlock(tried.error, tried.called)
                 ELSE tried
    IN [threw |-> ended.done = "throw", called |-> ended.called,
        content |-> ended.content, error |-> ended.error]

UserRole == <<"u", "s", "e", "r">>
SystemRole == <<"s", "y", "s", "t", "e", "m">>
AssistantRole == <<"a", "s", "s", "i", "s", "t", "a", "n", "t">>

ValidRoles == {SystemRole, UserRole, AssistantRole}

ValidMessageRoleOnly(msg) ==
    /\ ~Falsy(msg)
    /\ msg.t \in {"object", "array"}
    /\ Prop(msg, "role").t = "string"
    /\ Prop(msg, "role").str \in ValidRoles

\* the callback of messages.every
ValidMessage(msg) ==
    /\ ~Falsy(msg)
    /\ msg.t \in {"object", "array"}                 \* typeof msg === 'object'
    /\ Prop(msg, "role").t = "string"
    /\ Prop(msg, "content").t = "string"
    /\ Prop(msg, "role").str \in ValidRoles

validateMessages(msgs) ==
    /\ msgs.t = "array"
    /\ \A i \in 1..Len(msgs.items) : ValidMessage(msgs.items[i])

ContentOutcome(text) == [kind |-> "content", text |-> text, error |-> <<>>]
ErrorOutcome(err) == [kind |-> "error", text |-> <<>>, error |-> err]
\* the dynamic import of useRealChatFixed.sendMessage rejects
ImportFailed == [kind |-> "importFailed", text |-> <<>>, error |-> <<>>]

\* the awaited call rejects, or a statement of the try block throws
Threw == [kind |-> "threw", text |-> <<>>, error |-> <<>>]

getErrorMessage(error) ==
    IF Includes(error, <<"4", "0", "1">>) \/ Includes(error, <<"I", "n", "v", "a", "l", "i", "d", " ", "A", "P", "I", " ", "k", "e", "y">>)
    THEN "There seems to be an authentication issue."
    ELSE IF Includes(error, <<"4", "2", "9">>) \/ Includes(error, <<"r", "a", "t", "e", " ", "l", "i", "m", "i", "t">>)
    THEN "I need to slow down a bit due to high usage."
    ELSE IF Includes(error, <<"5", "0", "0">>) \/ Includes(error, <<"s", "e", "r", "v", "e", "r">>)
    THEN "The AI service is temporarily unavailable."
    ELSE IF Includes(error, <<"n", "e", "t", "w", "o", "r", "k">>) \/ Includes(error, <<"c", "o", "n", "n", "e", "c", "t", "i", "o", "n">>)
    THEN "There seems to be a connection issue."
    ELSE "Something unexpected happened."

\* the assistant text useRealChat appends for a wrapper result
RealAssistantContent(outcome) ==
    IF outcome.kind = "error"
    THEN <<"I'm having trouble connecting right now. ", getErrorMessage(outcome.error),
           " Let me try to help you anyway - could you rephrase your question?">>
    ELSE IF outcome.kind = "threw"
    THEN <<"I'm experiencing some technical difficulties right now. Please try again in a moment, and I'll do my best to help you with your studies!">>
    ELSE outcome.text

\* the assistant text useRealChatFixed appends for a wrapper result
FixedAssistantContent(outcome, call) ==
    IF outcome.kind = "content" THEN outcome.text
    ELSE FallbackResponse(call.learningStyle, call.content, call.subject)

-----------------------------------------------------------------------------
(* Inputs the model tries *)

TxtQuestion == <<"2", "x", "=", "4">>
TxtSlope == <<"s", "l", "o", "p", "e">>
TxtTwoGames == <<"M", "i", "n", "e", "c", "r", "a", "f", "t", " ", "a", "n", "d", " ", "R", "o", "b", "l", "o", "x">>
TxtNoThanks == <<"n", "o", " ", "t", "h", "a", "n", "k", "s">>
TxtSameTwice == <<"H", "a", "l", "o", ",", " ", "H", "a", "l", "o">>

QuestionTexts == {TxtQuestion}
ReplyTexts == {TxtQuestion, TxtTwoGames, TxtNoThanks, TxtSameTwice}
ActionTypesTried == {Null, "explain"}
StylesTried == {"visual", "socratic"}
AnswerText == <<"answer">>
OutcomesTried == {ContentOutcome(AnswerText), ErrorOutcome(ErrRateLimit), ImportFailed}

\* a setTimeout callback; atFire: it builds its message, and reads the clock,
\* when it runs (otherwise the message was built when the delay was set)
Timer(gate, content, ts, atFire) ==
    [gate |-> gate, content |-> content, timestamp |-> ts, atFire |-> atFire]

-----------------------------------------------------------------------------
(* Initial state: first mount on an empty localStorage *)

\* the state after the first render and its effects, at instant t
FirstMount(t) ==
    /\ subject = "algebra"
    /\ learningStyle = "visual"
    /\ messages = <<>>
    /\ isLoading = FALSE
    /\ gamePrefs = <<>>
    /\ asked = FALSE
    /\ prefersGames = Null
    /\ storage = [k \in StorageKeys |-> IF k = StyleKey THEN StrEntry("visual") ELSE Absent]
    /\ timers = <<>>
    /\ pending = <<>>
    /\ closure = Captured(<<>>, FALSE, FALSE, <<>>, "algebra", "visual")
    /\ now = t
    /\ switchedBusy = FALSE
    /\ probe = NoProbe
    /\ failing = {}
    /\ escaped = Null
    /\ util = NoCall

Init == hook \in Hooks /\ FirstMount(TimeOrigin)

-----------------------------------------------------------------------------
(* useRealChatFixed.sendMessage *)

\* a faulty variant of GateBranch: the question waits for one more message
\* (userMessageCount > 3)
GateBranchOneLate(ask, prefs, userMessageCount) ==
    IF ~ask /\ ~hasPrefs(prefs) /\ userMessageCount > AskAfter THEN "ask"
    ELSE IF ask /\ ~hasPrefs(prefs) THEN "reply"
    ELSE "call"

\* which branch of the gate the submitted message takes
GateBranch(ask, prefs, userMessageCount) ==
    IF ~ask /\ ~hasPrefs(prefs) /\ userMessageCount >= AskAfter THEN "ask"
    ELSE IF ask /\ ~hasPrefs(prefs) THEN "reply"
    ELSE "call"

SendFixed(content, actionType, record) ==
    /\ hook = HookFixed
    /\ Trim(content) # <<>>
    /\ ~closure.isLoading
    /\ LET text == Trim(content)
           userMessageCount == Len(SeqFilter(IsUser, closure.messages)) + 1
           branch == GateBranch(closure.asked, closure.gamePrefs, userMessageCount)
           newUserMsg == Message("user", text, now, FALSE,
                                 IF branch = "reply" THEN "reply" ELSE "none", subject)
           nextMessages == Append(closure.messages, newUserMsg)
           parsed == parseGamesFromText(text)
           systemContent ==
               SystemContentFixed(closure.subject, actionType, closure.learningStyle,
                                  closure.gamePrefs, Last(nextMessages).content)
           inputs == Inputs(subject, actionType, learningStyle, gamePrefs, text)
       IN /\ messages' = nextMessages
          /\ IF branch = "ask"
             THEN /\ timers' = Append(timers, Timer("ask", AskContent, now, FALSE))
                  /\ asked' = TRUE
                  /\ storage' = Persist(hook,
                                    setItem(storage, LS_KEYS.asked, StrEntry(AskedText(TRUE))),
                                    subject, nextMessages)
                  /\ UNCHANGED <<gamePrefs, prefersGames, isLoading, pending>>
                  /\ record = FALSE
             ELSE IF branch = "reply" /\ Len(parsed) > 0
             THEN /\ gamePrefs' = setGamePrefs(SliceFirst(parsed, MaxPrefs))
                  /\ prefersGames' = "true"
                  /\ timers' = Append(timers,
                                   Timer("ack", AckAccepted(GamesToShow(parsed)), TimeOrigin, TRUE))
                  /\ isLoading' = FALSE
                  /\ storage' = Persist(hook,
                                    setItem(setItem(storage, LS_KEYS.prefs,
                                                    JsonLabels(setGamePrefs(SliceFirst(parsed, MaxPrefs)))),
                                            LS_KEYS.prefers, StrEntry(PrefersText("true"))),
                                    subject, nextMessages)
                  /\ UNCHANGED <<asked, pending>>
                  /\ record = FALSE
             ELSE IF branch = "reply"
             THEN /\ prefersGames' = "false"
                  /\ timers' = Append(timers, Timer("ack", AckDeclined, TimeOrigin, TRUE))
                  /\ isLoading' = FALSE
                  /\ storage' = Persist(hook,
                                    setItem(storage, LS_KEYS.prefers, StrEntry(PrefersText("false"))),
                                    subject, nextMessages)
                  /\ UNCHANGED <<gamePrefs, asked, pending>>
                  /\ record = FALSE
             ELSE /\ isLoading' = TRUE
                  /\ pending' = Append(pending,
                                    Call(systemContent, SliceLast(nextMessages, ContextWindow),
                                         content, closure.subject, closure.learningStyle, inputs))
                  /\ storage' = Persist(hook, storage, subject, nextMessages)
                  /\ UNCHANGED <<gamePrefs, asked, prefersGames, timers>>
                  /\ record => probe = NoProbe
          /\ probe' = IF record THEN [set |-> TRUE, inputs |-> inputs, system |-> systemContent]
                      ELSE probe
          /\ branch = "call" \/ ~Throws("setItem")
    /\ now' = Advance(now)
    /\ UNCHANGED <<util, failing, escaped, hook, subject, learningStyle, switchedBusy>>
    /\ Recapture(TRUE)

\* the gate branches when setItem throws: save of useGamePrefs calls setItem
\* outside any try block, after the state setter, so the exception leaves
\* setAsked, setGamePrefs or setPrefers and then sendMessage; the statements
\* after the throwing call do not run
SendFixedSaveThrows(content) ==
    /\ hook = HookFixed
    /\ Trim(content) # <<>>
    /\ ~closure.isLoading
    /\ Throws("setItem")
    /\ LET text == Trim(content)
           userMessageCount == Len(SeqFilter(IsUser, closure.messages)) + 1
           branch == GateBranch(closure.asked, closure.gamePrefs, userMessageCount)
           newUserMsg == Message("user", text, now, FALSE,
                                 IF branch = "reply" THEN "reply" ELSE "none", subject)
           nextMessages == Append(closure.messages, newUserMsg)
           parsed == parseGamesFromText(text)
       IN /\ branch # "call"
          /\ messages' = nextMessages
          /\ storage' = Persist(hook, storage, subject, nextMessages)
          /\ IF branch = "ask"
             THEN /\ timers' = Append(timers, Timer("ask", AskContent, now, FALSE))
                  /\ asked' = TRUE
                  /\ UNCHANGED <<gamePrefs, prefersGames>>
             ELSE IF Len(parsed) > 0
             THEN /\ gamePrefs' = setGamePrefs(SliceFirst(parsed, MaxPrefs))
                  /\ UNCHANGED <<asked, prefersGames, timers>>
             ELSE /\ prefersGames' = "false"
                  /\ UNCHANGED <<gamePrefs, asked, timers>>
    /\ escaped' = "sendMessage"
    /\ now' = Advance(now)
    /\ UNCHANGED <<util, failing, hook, subject, learningStyle, isLoading, pending,
                   switchedBusy, probe>>
    /\ Recapture(TRUE)

-----------------------------------------------------------------------------
(* sendMessage of the useRealChat of hooks/useGamePrefs.js.  Its effects,   *)
(* its delays, its resumed continuation and its clearMessages are the       *)
(* statements of useRealChat: the actions of that hook stand for them       *)

MockAnswer == <<"mockResponses">>

\* the system text composed before the mock answer: the topic is detected in
\* messages.at(-1) of the closure, the message before the submitted one
SystemContentMock(subj, style, prefs, msgs) ==
    LET userText == IF msgs = <<>> THEN <<>> ELSE ToLowerCase(Last(msgs).content)
    IN buildSystemWithGames(<<"You are Sveti, a friendly " \o subj \o " tutor.">>,
                            "Teaching style: " \o style, prefs, DetectTopic(userText))

SendMock(content, actionType) ==
    /\ hook = HookMock
    /\ Trim(content) # <<>>
    /\ ~closure.isLoading
    /\ LET text == Trim(content)
           userMessageCount == Len(SeqFilter(IsUser, closure.messages)) + 1
           branch == GateBranch(closure.asked, closure.gamePrefs, userMessageCount)
           userMsg == Message("user", text, now, FALSE,
                              IF branch = "reply" THEN "reply" ELSE "none", subject)
           nextMessages == Append(closure.messages, userMsg)
           parsed == parseGamesFromText(text)
           systemContent ==
               SystemContentMock(closure.subject, closure.learningStyle,
                                 closure.gamePrefs, closure.messages)
           inputs == Inputs(subject, actionType, learningStyle, gamePrefs, text)
       IN /\ messages' = nextMessages
          /\ IF branch = "ask"
             THEN /\ timers' = Append(timers, Timer("ask", AskContent, now, FALSE))
                  /\ asked' = TRUE
                  /\ storage' = Persist(hook,
                                    setItem(storage, LS_KEYS.asked, StrEntry(AskedText(TRUE))),
                                    subject, nextMessages)
                  /\ UNCHANGED <<gamePrefs, prefersGames, isLoading, pending>>
             ELSE IF branch = "reply" /\ Len(parsed) > 0
             THEN /\ gamePrefs' = setGamePrefs(SliceFirst(parsed, MaxPrefs))
                  /\ prefersGames' = "true"
                  /\ timers' = Append(timers,
                                   Timer("ack", AckAccepted(GamesToShow(parsed)), TimeOrigin, TRUE))
                  /\ storage' = Persist(hook,
                                    setItem(setItem(storage, LS_KEYS.prefs,
                                                    JsonLabels(setGamePrefs(SliceFirst(parsed, MaxPrefs)))),
                                            LS_KEYS.prefers, StrEntry(PrefersText("true"))),
                                    subject, nextMessages)
                  /\ UNCHANGED <<asked, isLoading, pending>>
             ELSE IF branch = "reply"
             THEN /\ prefersGames' = "false"
                  /\ timers' = Append(timers, Timer("ack", AckDeclined, TimeOrigin, TRUE))
                  /\ storage' = Persist(hook,
                                    setItem(storage, LS_KEYS.prefers, StrEntry(PrefersText("false"))),
                                    subject, nextMessages)
                  /\ UNCHANGED <<gamePrefs, asked, isLoading, pending>>
             ELSE /\ isLoading' = TRUE
                  /\ pending' = Append(pending,
                                    Call(systemContent, <<>>, text, closure.subject,
                                         closure.learningStyle, inputs))
                  /\ storage' = Persist(hook, storage, subject, nextMessages)
                  /\ UNCHANGED <<gamePrefs, asked, prefersGames, timers>>
    /\ now' = Advance(now)
    /\ UNCHANGED <<util, failing, escaped, hook, subject, learningStyle, switchedBusy, probe>>
    /\ Recapture(TRUE)

-----------------------------------------------------------------------------
(* useRealChat.sendMessage *)

\* the isLoading prop InputArea.handleSubmit tests: the App passes the flag
\* as "disabled", so the prop is undefined
InputAreaIsLoading == FALSE

createMessage(role, content) == Message(role, content, now, FALSE, "none", subject)

SendReal(content, actionType, record) ==
    /\ hook = HookReal
    /\ Trim(content) # <<>>
    /\ ~InputAreaIsLoading
    /\ LET text == Trim(content)
           userMessage == createMessage("user", text)
           systemContent ==
               SystemContentReal(closure.subject, actionType, closure.learningStyle)
           context ==
               Append(SliceLast(SeqFilter(NotSystem, closure.messages), ContextWindow),
                      userMessage)
           inputs == Inputs(subject, actionType, learningStyle, gamePrefs, text)
       IN /\ messages' = Append(messages, userMessage)
          /\ isLoading' = TRUE
          /\ pending' = Append(pending,
                            Call(systemContent, context, text, closure.subject,
                                 closure.learningStyle, inputs))
          /\ storage' = Persist(hook, storage, subject, messages')
          /\ record => probe = NoProbe
          /\ probe' = IF record THEN [set |-> TRUE, inputs |-> inputs, system |-> systemContent]
                      ELSE probe
    /\ now' = Advance(now)
    /\ UNCHANGED <<util, failing, escaped, hook, subject, learningStyle, gamePrefs, asked, prefersGames,
                   timers, switchedBusy>>
    /\ Recapture(TRUE)

sendMessage(content, actionType, record) ==
    \/ SendFixed(content, actionType, record)
    \/ SendFixedSaveThrows(content) /\ ~record
    \/ SendReal(content, actionType, record)
    \/ SendMock(content, actionType) /\ ~record

-----------------------------------------------------------------------------
(* The continuation of sendMessage after the completion call *)

\* a faulty variant of FixedAssistantMessage: a failed call takes the outer
\* catch, whose message carries error: true
FixedAssistantMessageFlagged(outcome, call) ==
    IF outcome.kind = "content"
    THEN Message("assistant", outcome.text, now, FALSE, "none", subject)
    ELSE Message("assistant", <<"I apologize, but I encountered an error. Please try again.">>,
                 now, TRUE, "none", subject)

\* aiMsg of useRealChatFixed.sendMessage
FixedAssistantMessage(outcome, call) ==
    Message("assistant", FixedAssistantContent(outcome, call), now, FALSE, "none", subject)

\* the assistant message useRealChat.sendMessage appends
RealAssistantMessage(outcome) == createMessage("assistant", RealAssistantContent(outcome))

\* a faulty variant of setIsLoadingFinally: setIsLoading(false) is the last
\* statement of the try block, skipped when the call did not return text
setIsLoadingOnSuccess(outcome) == IF outcome.kind = "content" THEN FALSE ELSE isLoading

\* finally { setIsLoading(false) }
setIsLoadingFinally(outcome) == FALSE

PendingAfterRetrying(calls, i, outcome) ==
    IF outcome.kind = "content" THEN RemoveAt(calls, i) ELSE calls

\* the calls in flight once call i has settled: the continuation of
\* sendMessage has no loop and its catch starts no call
PendingAfter(calls, i, outcome) == RemoveAt(calls, i)

Response(i, outcome) ==
    /\ i \in 1..Len(pending)
    /\ hook = HookReal => outcome.kind # "importFailed"
    /\ LET call == pending[i]
           aiMsg == IF hook = HookFixed THEN FixedAssistantMessage(outcome, call)
                    ELSE RealAssistantMessage(outcome)
       IN /\ messages' = Append(messages, aiMsg)
          /\ storage' = Persist(hook, storage, subject, messages')
    /\ isLoading' = setIsLoadingFinally(outcome)
    /\ pending' = PendingAfter(pending, i, outcome)
    /\ now' = Advance(now)
    /\ UNCHANGED <<util, failing, escaped, hook, subject, learningStyle, gamePrefs, asked, prefersGames,
                   timers, switchedBusy, probe>>
    /\ Recapture(TRUE)

\* a setTimeout callback of the gate runs (the clarifying question after
\* 1.5 s, an acknowledgment after 2 s)
TimerFire ==
    /\ timers # <<>>
    /\ LET t == Head(timers)
           msg == Message("assistant", t.content,
                          IF t.atFire THEN now ELSE t.timestamp,
                          FALSE, t.gate, subject)
       IN /\ messages' = Append(messages, msg)
          /\ storage' = Persist(hook, storage, subject, messages')
    /\ timers' = Tail(timers)
    /\ now' = Advance(now)
    /\ UNCHANGED <<util, failing, escaped, hook, subject, learningStyle, isLoading, gamePrefs, asked,
                   prefersGames, pending, switchedBusy, probe>>
    /\ Recapture(TRUE)

-----------------------------------------------------------------------------
(* clearMessages *)

RECURSIVE RemoveSubjects(_, _)
RemoveSubjects(st, subjs) ==
    IF subjs = <<>> THEN st
    ELSE RemoveSubjects(removeItem(st, getStorageKey(Head(subjs))), Tail(subjs))

\* localStorage after useRealChatFixed.clearMessages
ClearedStorageFixed(st, subj) ==
    resetGamePrefs(RemoveSubjects(removeItem(st, getStorageKey(subj)), Subjects))

\* a faulty variant of ClearedStorageReal: every subject's key is removed,
\* as useRealChatFixed does
ClearedStorageRealEverySubject(st, subj) ==
    RemoveSubjects(removeItem(st, getStorageKey(subj)), Subjects)

\* localStorage after useRealChat.clearMessages
ClearedStorageReal(st, subj) == removeItem(st, getStorageKey(subj))

\* a faulty variant of clearMessages: the pending completion calls and pacing
\* delays are cancelled (clearTimeout, an aborted request)
clearMessagesCancelling ==
    /\ messages' = <<>>
    /\ IF hook = HookFixed
       THEN /\ storage' = ClearedStorageFixed(storage, subject)
            /\ gamePrefs' = <<>>
            /\ asked' = FALSE
            /\ prefersGames' = Null
       ELSE /\ storage' = ClearedStorageReal(storage, subject)
            /\ UNCHANGED <<gamePrefs, asked, prefersGames>>
    /\ timers' = <<>>
    /\ pending' = <<>>
    /\ UNCHANGED <<util, failing, escaped, hook, subject, learningStyle, isLoading, now, switchedBusy, probe>>
    /\ Recapture(TRUE)

\* (a throwing removeItem is caught: the first call of the try block throws,
\* and resetGamePrefs is not reached)
clearMessages ==
    /\ messages' = <<>>
    /\ IF Throws("removeItem")
       THEN UNCHANGED <<storage, gamePrefs, asked, prefersGames>>
       ELSE IF hook = HookFixed
       THEN /\ storage' = ClearedStorageFixed(storage, subject)
            /\ gamePrefs' = <<>>
            /\ asked' = FALSE
            /\ prefersGames' = Null
       ELSE /\ storage' = ClearedStorageReal(storage, subject)
            /\ UNCHANGED <<gamePrefs, asked, prefersGames>>
    /\ UNCHANGED <<util, failing, escaped, hook, subject, learningStyle, isLoading, timers, pending, now,
                   switchedBusy, probe>>
    /\ Recapture(TRUE)

-----------------------------------------------------------------------------
(* The App: subject select, learning-style buttons, page reload *)

setSubject(subj) ==
    /\ subj # subject
    /\ subject' = subj
    /\ LET e == SubjectEffects(hook, storage, subj, messages)
       IN /\ messages' = e.messages
          /\ storage' = e.storage
          /\ escaped' = IF e.threw THEN "loadMessagesForSubject" ELSE escaped
    /\ switchedBusy' = (switchedBusy \/ timers # <<>> \/ pending # <<>>)
    /\ UNCHANGED <<util, failing, hook, learningStyle, isLoading, gamePrefs, asked, prefersGames,
                   timers, pending, now, probe>>
    /\ Recapture(TRUE)

setLearningStyle(style) ==
    /\ style # learningStyle
    /\ learningStyle' = style
    /\ storage' = IF Throws("setItem") THEN storage
                  ELSE setItem(storage, StyleKey, StrEntry(style))
    /\ escaped' = IF Throws("setItem") THEN "learningStyleSaveEffect" ELSE escaped
    /\ UNCHANGED <<util, failing, hook, subject, messages, isLoading, gamePrefs, asked, prefersGames,
                   timers, pending, now, switchedBusy, probe>>
    /\ Recapture(FALSE)

\* the page is loaded again: every hook state is initialised from
\* localStorage, and the callbacks of the old page never run
Reload ==
    LET saved == storage[StyleKey]
        style == IF saved.kind = "str" /\ saved.str \in StyleKeys THEN saved.str
                 ELSE "visual"
        st == setItem(storage, StyleKey, StrEntry(style))
        e == SubjectEffects(hook, st, "algebra", <<>>)
        \* getItem is called outside any try block by the initialisers of
        \* useGamePrefs and by the style load effect, setItem by the style save
        \* effect
        mountThrows == Throws("getItem") \/ Throws("setItem") \/ e.threw
    IN /\ subject' = "algebra"
       /\ learningStyle' = IF mountThrows THEN "visual" ELSE style
       /\ messages' = IF mountThrows THEN <<>> ELSE e.messages
       /\ storage' = IF mountThrows THEN storage ELSE e.storage
       /\ isLoading' = FALSE
       /\ IF hook = HookFixed
          THEN /\ gamePrefs' = IF mountThrows THEN <<>> ELSE InitialGamePrefs(storage)
               /\ asked' = IF mountThrows THEN FALSE ELSE InitialAsked(storage)
               /\ prefersGames' = IF mountThrows THEN Null ELSE InitialPrefers(storage)
          ELSE UNCHANGED <<gamePrefs, asked, prefersGames>>
       /\ timers' = <<>>
       /\ pending' = <<>>
       /\ closure' = Captured(messages', FALSE, asked', gamePrefs', subject', learningStyle')
       /\ escaped' = IF mountThrows THEN "mount" ELSE escaped
       /\ UNCHANGED <<util, failing, hook, now, switchedBusy, probe>>

-----------------------------------------------------------------------------

\* the gate is waiting for the reply to the clarifying question
AwaitingReply == hook = HookFixed /\ asked /\ ~hasPrefs(gamePrefs)

\* a submission, within the bounds of the model: the conversation in memory,
\* with an answer for every call and delay still pending, stays below maxLen
Submit(questions, replies, actionTypes, records, maxLen) ==
    /\ Len(messages) + Len(pending) + Len(timers) < maxLen
    /\ \E content \in (IF AwaitingReply THEN replies ELSE questions),
          actionType \in actionTypes, record \in records :
           sendMessage(content, actionType, record)

\* a completion call resumes, within the bounds of the model
Respond(outcomes, maxLen) ==
    /\ Len(messages) < maxLen
    /\ \E i \in 1..Len(pending), outcome \in outcomes : Response(i, outcome)

\* a pacing delay of the gate resumes, within the bounds of the model
Fire(maxLen) ==
    /\ Len(messages) < maxLen
    /\ TimerFire

\* the user submits the next message when no completion call is in flight
\* (the call in flight may still resume after a clear or a subject switch)
SubmitWhenAnswered(maxLen) ==
    /\ pending = <<>>
    /\ Submit(QuestionTexts, ReplyTexts, {Null}, {FALSE}, maxLen)

\* both hooks: conversation, persistence, subjects and reloads, for
\* conversations too short for the gate to ask its question
Next ==
    \/ SubmitWhenAnswered(MaxLen)
    \/ Respond(OutcomesTried, MaxLen)
    \/ clearMessages
    \/ \E subj \in SubjectSet : setSubject(subj)
    \/ Reload

Spec == Init /\ [][Next]_vars

\* the personalization gate of useRealChatFixed within one subject; a
\* completion call that settles carries an answer
InitGate == hook = HookFixed /\ FirstMount(TimeOrigin)

NextGate ==
    \/ Submit(QuestionTexts, ReplyTexts, {Null}, {FALSE}, MaxGateLen)
    \/ Respond({ContentOutcome(AnswerText)}, MaxGateLen)
    \/ Fire(MaxGateLen)
    \/ clearMessages
    \/ Reload

SpecGate == InitGate /\ [][NextGate]_vars

-----------------------------------------------------------------------------
(* Prompt composition in both hooks: action types, learning styles, subjects *)
(* and a stored preference, with one composition remembered in probe        *)

LabelHalo == <<"H", "a", "l", "o">>

\* the conversation an earlier page load held under "english", in which the
\* gate asked its question and the student named one game
EarlierConversation ==
    <<Message("user", TxtQuestion, TimeOrigin, FALSE, "none", "english"),
      Message("assistant", AnswerText, TimeOrigin, FALSE, "none", "english"),
      Message("user", TxtQuestion, TimeOrigin, FALSE, "none", "english"),
      Message("assistant", AnswerText, TimeOrigin, FALSE, "none", "english"),
      Message("user", TxtQuestion, TimeOrigin, FALSE, "none", "english"),
      Message("assistant", AskContent, TimeOrigin, FALSE, "ask", "english"),
      Message("user", LabelHalo, TimeOrigin, FALSE, "reply", "english"),
      Message("assistant", AckAccepted(GamesToShow(<<LabelHalo>>)), TimeOrigin,
              FALSE, "ack", "english")>>

\* localStorage as that page load left it
EarlierStorage ==
    [k \in StorageKeys |->
        IF k = StyleKey THEN StrEntry("visual")
        ELSE IF k = getStorageKey("english")
        THEN JsonMessages(SeqMap(MessageForStorage, EarlierConversation))
        ELSE IF k = LS_KEYS.prefs THEN JsonLabels(setGamePrefs(<<LabelHalo>>))
        ELSE IF k = LS_KEYS.asked THEN StrEntry(AskedText(TRUE))
        ELSE IF k = LS_KEYS.prefers THEN StrEntry(PrefersText("true"))
        ELSE Absent]

\* a late mount on an empty localStorage, or (useRealChatFixed) on the
\* localStorage of the earlier page load
InitCompose ==
    \/ hook \in Hooks /\ FirstMount(LateInstant)
    \/ /\ hook = HookFixed
       /\ subject = "algebra"
       /\ learningStyle = "visual"
       /\ messages = <<>>
       /\ isLoading = FALSE
       /\ gamePrefs = InitialGamePrefs(EarlierStorage)
       /\ asked = InitialAsked(EarlierStorage)
       /\ prefersGames = InitialPrefers(EarlierStorage)
       /\ storage = EarlierStorage
       /\ timers = <<>>
       /\ pending = <<>>
       /\ closure = Captured(<<>>, FALSE, asked, gamePrefs, "algebra", "visual")
       /\ now = LateInstant
       /\ switchedBusy = FALSE
       /\ probe = NoProbe
       /\ failing = {}
       /\ escaped = Null
       /\ util = NoCall

ComposeTexts == {TxtQuestion, TxtSlope}

\* a submission; the composition of a conversation's first message may be
\* the one remembered
SubmitCompose(maxLen) ==
    /\ pending = <<>>
    /\ \/ Submit(ComposeTexts, ComposeTexts, ActionTypesTried, {FALSE}, maxLen)
       \/ /\ messages = <<>>
          /\ Submit(ComposeTexts, ComposeTexts, ActionTypesTried, {TRUE}, maxLen)

\* the subject is chosen before the conversation starts
SelectSubjectFirst(subj) ==
    /\ messages = <<>> /\ pending = <<>>
    /\ setSubject(subj)

NextCompose ==
    \/ SubmitCompose(MaxLen)
    \/ Respond({ContentOutcome(AnswerText)}, MaxLen)
    \/ clearMessages
    \/ \E subj \in SubjectSet : SelectSubjectFirst(subj)
    \/ \E style \in StylesTried : setLearningStyle(style)
    \/ Reload

SpecCompose == InitCompose /\ [][NextCompose]_vars

-----------------------------------------------------------------------------
(* Calls and delays that resume after a clear or a subject switch *)

\* useRealChatFixed with the subject select and the pacing delays of the
\* gate; the clock stands at the late instant, and the student clears, or
\* switches once, while a completion call or a pacing delay is pending
InitResume == hook = HookFixed /\ FirstMount(LateInstant)

Busy == timers # <<>> \/ pending # <<>>

ClearWhileBusy == Busy /\ clearMessages

\* the first switch made while something is pending
SwitchWhileBusy(subj) == Busy /\ ~switchedBusy /\ setSubject(subj)

NextResume ==
    \/ Submit(QuestionTexts, {TxtNoThanks}, {Null}, {FALSE}, MaxResumeLen)
    \/ Respond({ContentOutcome(AnswerText)}, MaxResumeLen)
    \/ Fire(MaxResumeLen)
    \/ ClearWhileBusy
    \/ \E subj \in SubjectSet : SwitchWhileBusy(subj)

SpecResume == InitResume /\ [][NextResume]_vars

-----------------------------------------------------------------------------
(* Submissions made while a completion call is in flight *)

\* both hooks; the student submits whenever the input area lets a message
\* through
InitBusy == hook \in Hooks /\ FirstMount(LateInstant)

NextBusy ==
    \/ Submit(QuestionTexts, {TxtNoThanks}, {Null}, {FALSE}, MaxBusyLen)
    \/ Respond(OutcomesTried, MaxBusyLen)
    \/ clearMessages

SpecBusy == InitBusy /\ [][NextBusy]_vars

-----------------------------------------------------------------------------
(* Every pending completion call eventually resumes *)

LiveOutcomes == OutcomesTried \cup {Threw}

\* a submission that leaves room, within the bound, for the answer to every
\* call then pending
SubmitLive(maxLen) ==
    /\ Len(messages) + Len(pending) + Len(timers) + 1 < maxLen
    /\ \E content \in (IF AwaitingReply THEN {TxtNoThanks} ELSE QuestionTexts) :
           sendMessage(content, Null, FALSE)

RespondLive == \E i \in 1..Len(pending), outcome \in LiveOutcomes : Response(i, outcome)

NextLive ==
    \/ SubmitLive(MaxLiveLen)
    \/ RespondLive
    \/ clearMessages
    \/ \E style \in StylesTried : setLearningStyle(style)

\* the completion service settles every call
SpecLive == Init /\ [][NextLive]_vars /\ WF_vars(RespondLive)

-----------------------------------------------------------------------------
(* localStorage starts to throw *)

\* one method throws
FailureModes == {{m} : m \in StorageMethods}

\* from now on the methods named throw whenever they are called
StorageBreaks(methods) ==
    /\ failing = {}
    /\ failing' = methods
    /\ UNCHANGED <<hook, subject, learningStyle, messages, isLoading, gamePrefs,
                   asked, prefersGames, storage, timers, pending, closure, now,
                   switchedBusy, probe, escaped, util>>

\* no exception has left a handler, an effect or a render so far
Alive == escaped = Null

Broken == failing # {}

\* the conversation of useRealChatFixed in one subject and one style while
\* localStorage works; once it throws, also a switch to "english" (where
\* the student only reads), a change of style to "socratic", clear and,
\* before the switch, a page reload
NextStorage ==
    \/ \E methods \in FailureModes : StorageBreaks(methods)
    \/ /\ Alive /\ subject = "algebra"
       /\ Submit(QuestionTexts, {TxtTwoGames, TxtNoThanks}, {Null}, {FALSE}, MaxResumeLen)
    \/ Alive /\ Respond({ContentOutcome(AnswerText)}, MaxResumeLen)
    \/ Alive /\ Fire(MaxResumeLen)
    \/ Alive /\ Broken /\ messages # <<>> /\ clearMessages
    \/ Alive /\ Broken /\ subject = "algebra" /\ setSubject("english")
    \/ Alive /\ Broken /\ learningStyle = "visual" /\ setLearningStyle("socratic")
    \/ Alive /\ Broken /\ subject = "algebra" /\ Reload

SpecStorage == InitResume /\ [][NextStorage]_vars

-----------------------------------------------------------------------------
(* Calls of the functions of utils/openai.js: one call, then the page is    *)
(* left alone                                                              *)

JsResponse(choices) == [t |-> "object", choices |-> choices]
JsChoice(message) == [t |-> "object", message |-> message]
JsCompletion(content) == [t |-> "object", content |-> content]

TxtHello == <<"H", "i">>
ContentsTried ==
    {JsString(<<" ", "o", "k", " ">>), JsString(<<" ">>), JsString(<<>>),
     JsNull, JsUndefined, JsNumber(5), JsNumber(0)}
ResponsesTried ==
    {JsResponse(JsArray(<<JsChoice(JsCompletion(c))>>)) : c \in ContentsTried}
    \cup {JsResponse(JsArray(<<>>)), JsResponse(JsArray(<<JsNull>>)),
          JsResponse(JsArray(<<JsChoice(JsNull)>>)), JsResponse(JsUndefined),
          JsUndefined, JsNull}
\* the endpoint rejects with an Error object of the SDK or of fetch
RejectionsTried ==
    {JsError(status, code, message) :
        status \in {JsNumber(401), JsNumber(429), JsNumber(402), JsNumber(503),
                    JsNumber(500), JsUndefined},
        code \in {JsUndefined, JsString(<<"NETWORK_ERROR">>)},
        message \in {JsUndefined, JsString(<<"b", "o", "o", "m">>),
                     JsString(<<"F", "a", "i", "l", "e", "d", " ", "t", "o", " ",
                                "f", "e", "t", "c", "h">>)}}
EndpointOutcomes ==
    {Resolves(r) : r \in ResponsesTried} \cup {Rejects(e) : e \in RejectionsTried}

KeysTried ==
    {JsUndefined, JsString(<<>>), JsString(KeyPlaceholder),
     JsString(<<"s", "k", "-", "l", "i", "v", "e">>)}
\* the callers omit the options or pass an object
OptionsTried == {JsUndefined, [t |-> "object", temperature |-> JsNumber(1)]}

ElementsTried ==
    {JsMessage(JsString(role), JsString(TxtHello)) :
        role \in ValidRoles \cup {<<"i", "n", "v", "a", "l", "i", "d">>}}
    \cup {[t |-> "object", content |-> JsString(TxtHello)],
          [t |-> "object", role |-> JsString(UserRole)],
          JsMessage(JsString(UserRole), JsNumber(0)),
          JsMessage(JsNumber(1), JsString(TxtHello)),
          JsString(<<"n", "o", "t", " ", "a", "n", " ", "o", "b", "j", "e", "c", "t">>),
          JsNull}
RECURSIVE SeqsUpTo(_, _)
SeqsUpTo(S, n) ==
    IF n = 0 THEN {<<>>}
    ELSE LET shorter == SeqsUpTo(S, n - 1)
         IN shorter \cup {Append(q, x) : q \in shorter, x \in S}
ListsTried ==
    {JsArray(items) : items \in SeqsUpTo(ElementsTried, MaxMessages)}
    \cup {JsUndefined, JsNull, JsString(TxtHello),
          JsMessage(JsString(UserRole), JsString(TxtHello))}
ArgumentsTried ==
    {JsArray(items) : items \in SeqsUpTo({JsMessage(JsString(UserRole), JsString(TxtHello)), JsNull}, 1)}
    \cup {JsUndefined, JsNull, JsString(TxtHello), JsNumber(0),
          JsMessage(JsString(UserRole), JsString(TxtHello))}

appVars ==
    <<hook, subject, learningStyle, messages, isLoading, gamePrefs, asked,
      prefersGames, storage, timers, pending, closure, now, switchedBusy,
      probe, failing, escaped>>

CallSendMessage ==
    \E key \in KeysTried, msgs \in ArgumentsTried, options \in OptionsTried,
       endpoint \in EndpointOutcomes :
        /\ util = NoCall
        /\ util' = [fn |-> "sendMessage", key |-> key, messages |-> msgs,
                    options |-> options, endpoint |-> endpoint,
                    result |-> sendOpenAIMessage(key, msgs, options, endpoint)]
        /\ UNCHANGED appVars

CallValidateMessages ==
    \E msgs \in ListsTried :
        /\ util = NoCall
        /\ util' = [fn |-> "validateMessages", messages |-> msgs,
                    result |-> validateMessages(msgs)]
        /\ UNCHANGED appVars

NextUtils == CallSendMessage \/ CallValidateMessages
SpecUtils == Init /\ [][NextUtils]_vars

-----------------------------------------------------------------------------
(* Replies to the clarifying question with blank, repeated and surplus labels *)

TxtBlankAmongLabels == <<"U", "n", "o", ",", " ", ",", "U", "n", "o", ",", "G", "o">>
TxtThreeLabels == <<"U", "n", "o", ",", "G", "o", ",", "T", "a", "g">>
TxtOnlyBlanks == <<" ", ",", " ">>
TxtFillerLabel == <<"I", "'", "m", " ", "i", "n", "t", "o", " ", "U", "n", "o">>
TxtOnlyFiller == <<"p", "l", "a", "y", "i", "n", "g">>
PrefTexts ==
    {TxtBlankAmongLabels, TxtThreeLabels, TxtOnlyBlanks, TxtFillerLabel, TxtOnlyFiller}

NextPrefs ==
    \/ Submit(QuestionTexts, PrefTexts, {Null}, {FALSE}, MaxPrefLen)
    \/ Respond({ContentOutcome(AnswerText)}, MaxPrefLen)
    \/ Fire(MaxPrefLen)
    \/ Reload

SpecPrefs == InitGate /\ [][NextPrefs]_vars

-----------------------------------------------------------------------------
(* Conversations longer than the context window *)

InitWindow == hook \in Hooks /\ FirstMount(LateInstant)

\* the student waits for the answer before the next message, and names two
\* games when asked
SubmitWhenIdle(maxLen) ==
    /\ pending = <<>> /\ timers = <<>>
    /\ Submit(ComposeTexts, {TxtTwoGames}, {Null}, {FALSE}, maxLen)

NextWindow ==
    \/ SubmitWhenIdle(MaxWindowLen)
    \/ Respond({ContentOutcome(AnswerText)}, MaxWindowLen)
    \/ Fire(MaxWindowLen)

SpecWindow == InitWindow /\ [][NextWindow]_vars

-----------------------------------------------------------------------------
(* The useRealChat of hooks/useGamePrefs.js: sends, mock answers, delays and *)
(* learning-style changes                                                   *)

MockTexts == {TxtSlope, TxtTwoGames}

InitMock == hook = HookMock /\ FirstMount(LateInstant)

SubmitMock(maxLen) ==
    /\ Len(messages) + Len(pending) + Len(timers) < maxLen
    /\ \E content \in MockTexts : sendMessage(content, Null, FALSE)

NextMock ==
    \/ SubmitMock(MaxMockLen)
    \/ Respond({ContentOutcome(MockAnswer)}, MaxMockLen)
    \/ Fire(MaxMockLen)
    \/ \E style \in StylesTried : setLearningStyle(style)

SpecMock == InitMock /\ [][NextMock]_vars

-----------------------------------------------------------------------------
(* Properties *)

\* the steps that are a submission of some text
SendStep(content) ==
    \E actionType \in ActionTypesTried, record \in BOOLEAN :
        sendMessage(content, actionType, record)

AllTexts == QuestionTexts \cup ReplyTexts \cup ComposeTexts

FailureOutcomes == {o \in OutcomesTried : o.kind # "content"}

UserCount(msgs) == Len(SeqFilter(IsUser, msgs))

\* what loading subj restores from st
Loaded(h, st, subj) ==
    IF h = HookFixed THEN LoadEffect(st, subj, <<>>)
    ELSE loadMessagesForSubject(st, subj).messages

SameToTheSecond(a, b) ==
    /\ Len(a) = Len(b)
    /\ \A i \in 1..Len(a) :
        /\ a[i].role = b[i].role
        /\ a[i].content = b[i].content
        /\ a[i].timestamp \div 1000 = b[i].timestamp \div 1000

\* C1: whenever the conversation of the selected subject is not empty, the
\* save effect has run on it, and loading the subject from localStorage
\* yields the same messages in the same order, each timestamp equal to the
\* original to the second
C1_RoundTrip ==
    messages # <<>> => SameToTheSecond(Loaded(hook, storage, subject), messages)

\* two messages appended at different seconds are in memory and persisted
C1_Witness ==
    /\ Len(messages) = 2
    /\ messages[1].timestamp \div 1000 # messages[2].timestamp \div 1000
    /\ storage[getStorageKey(subject)].kind = "messages"
    /\ SameToTheSecond(Loaded(hook, storage, subject), messages)

OtherSubjectsUnchanged ==
    \A s \in SubjectSet \ {subject} :
        storage'[getStorageKey(s)] = storage[getStorageKey(s)]

C3_AskOnce ==
    [][/\ (/\ ~asked /\ gamePrefs = <<>> /\ prefersGames = Null
           /\ UserCount(messages) = AskAfter - 1
           /\ \E content \in AllTexts : SendStep(content) /\ hook = HookFixed)
          => /\ asked'
             /\ timers' = Append(timers, Timer("ask", AskContent, now, FALSE))
             /\ pending' = pending
             /\ Len(messages') = Len(messages) + 1
             /\ Last(messages').role = "user"
       /\ (TimerFire /\ Head(timers).gate = "ask")
          => /\ Len(messages') = Len(messages) + 1
             /\ Last(messages').role = "assistant"
             /\ Last(messages').content = AskContent
             /\ timers' = Tail(timers)
             /\ pending' = pending]_vars

\* the third user message was submitted: the question waits for its delay,
\* and no completion call was started
C3_Witness ==
    /\ hook = HookFixed
    /\ asked /\ prefersGames = Null
    /\ UserCount(messages) = AskAfter
    /\ Last(messages).role = "user"
    /\ Len(timers) = 1 /\ timers[1].gate = "ask"
    /\ pending = <<>>

\* the non-empty comma / "and"-separated labels of a reply
Labels(text) == SeqFilter(NonEmpty, SeqMap(Trim, SplitGames(text, <<>>)))

AwaitingFirstReply == asked /\ gamePrefs = <<>> /\ prefersGames = Null

\* C4 as stated: a reply without negation word and with a label resolves to
\* accepted with its first two labels; a reply with a negation word resolves
\* to declined with no preferences
C4_AsStated ==
    [][\A content \in ReplyTexts :
        (AwaitingFirstReply /\ hook = HookFixed /\ SendStep(content)) =>
            /\ (~HasNegation(ToLowerCase(content)) /\ Labels(content) # <<>>)
               => /\ prefersGames' = "true"
                  /\ gamePrefs' = SliceFirst(Labels(content), 2)
            /\ HasNegation(ToLowerCase(content))
               => /\ prefersGames' = "false"
                  /\ gamePrefs' = <<>>]_vars

\* C4: a reply without negation word and with a label resolves to accepted
\* with the distinct labels among its first two labels, in order; a reply
\* with a negation word resolves to declined with no preferences
C4_Reply ==
    [][\A content \in ReplyTexts :
        (AwaitingFirstReply /\ hook = HookFixed /\ SendStep(content)) =>
            /\ (~HasNegation(ToLowerCase(content)) /\ Labels(content) # <<>>)
               => /\ prefersGames' = "true"
                  /\ gamePrefs' = Dedupe(SliceFirst(Labels(content), 2))
            /\ HasNegation(ToLowerCase(content))
               => /\ prefersGames' = "false"
                  /\ gamePrefs' = <<>>]_vars

\* the reply "Halo, Halo" was accepted: one preference
C4_Witness ==
    /\ hook = HookFixed
    /\ prefersGames = "true"
    /\ gamePrefs = <<LabelHalo>>
    /\ messages # <<>>
    /\ Last(messages).content = TxtSameTwice
    /\ Last(messages).gate = "reply"

FailureStep == \E i \in 1..Len(pending), outcome \in FailureOutcomes : Response(i, outcome)

C6_NoClarifyingExchange ==
    \A i \in 1..Len(pending) : \A j \in 1..Len(pending[i].gates) :
        pending[i].gates[j] = "none"

\* C7: once the status is accepted or declined, status and preference list
\* change only by clearMessages
C7_Frozen ==
    [][prefersGames # Null =>
        \/ prefersGames' = prefersGames /\ gamePrefs' = gamePrefs
        \/ clearMessages]_vars

\* C8: once the status is accepted or declined, every submission starts a
\* completion call
C8_PassThrough ==
    [][(prefersGames # Null /\ hook = HookFixed /\ \E content \in AllTexts : SendStep(content))
        => Len(pending') = Len(pending) + 1]_vars

OnlyFrom(msgs, subj) == \A i \in 1..Len(msgs) : msgs[i].origin = subj

\* C9: when no call or delay was pending at any subject switch, the
\* conversation in memory and every persisted conversation hold only
\* messages appended while their subject was selected
C9_NoMerging ==
    ~switchedBusy =>
        /\ OnlyFrom(messages, subject)
        /\ \A s \in SubjectSet :
               storage[getStorageKey(s)].kind = "messages"
                   => OnlyFrom(storage[getStorageKey(s)].items, s)

PersistedUnderSelected ==
    storage'[getStorageKey(subject')] = JsonMessages(SeqMap(MessageForStorage, messages'))

\* C11: clearMessages and a subject switch leave every pending completion
\* call and pacing delay pending; a call or delay that resumes appends one
\* assistant message to the conversation then in memory, and the result is
\* persisted under the then-selected subject
C11_NeverCancelled ==
    [][/\ (clearMessages \/ \E subj \in SubjectSet : setSubject(subj))
          => timers' = timers /\ pending' = pending
       /\ ((\E i \in 1..Len(pending) : Response(i, ContentOutcome(AnswerText))) \/ TimerFire)
          => /\ Len(messages') = Len(messages) + 1
             /\ SubSeq(messages', 1, Len(messages)) = messages
             /\ Last(messages').role = "assistant"
             /\ Last(messages').origin = subject
             /\ subject' = subject
             /\ PersistedUnderSelected]_vars

\* the clarifying question was appended after a clear and a switch to
\* "english": it is the whole conversation, persisted under "english", and
\* the gate's state is the reset one
C11_Witness ==
    /\ hook = HookFixed
    /\ subject = "english"
    /\ ~asked
    /\ Len(messages) = 1
    /\ messages[1].gate = "ask"
    /\ messages[1].origin = "english"
    /\ storage[getStorageKey("english")] = JsonMessages(SeqMap(MessageForStorage, messages))

\* C12: at most one completion call is outstanding: a submission made while
\* a call is pending appends no user message and starts no second call
C12_OneOutstanding == Len(pending) <= 1

\* the guard of the sendMessage callback in place lets a submission through
Accepting == hook = HookFixed => ~closure.isLoading

\* C13: whenever the loading flag is set, it is eventually cleared, with the
\* sendMessage callback then in place accepting a submission: whether the
\* call returned text, returned an error or threw
C13_ReadyAgain == isLoading ~> (~isLoading /\ Accepting)

\* useRealChat: the call threw, the apology is the last message and the
\* loading flag is cleared
C13_Witness ==
    /\ hook = HookReal
    /\ messages # <<>>
    /\ Last(messages) = RealAssistantMessage(Threw)
    /\ ~isLoading
    /\ pending = <<>>

\* C14: no exception raised by a throwing localStorage method leaves the
\* hook initialisation, an effect, sendMessage or clearMessages
C14_NothingEscapes == escaped = Null

\* C15: when a subject without a persisted conversation (no entry, or an
\* entry that does not parse) becomes the selected one, the conversation in
\* memory becomes empty, and the entry is absent or rewritten afterwards
C15_EmptyOnSelect ==
    [][\A subj \in SubjectSet :
        (setSubject(subj) /\ storage[getStorageKey(subj)].kind # "messages")
            => /\ messages' = <<>>
               /\ storage'[getStorageKey(subj)].kind # "str"]_vars

C17_CalledOnce ==
    [][/\ Len(pending') > Len(pending) =>
            /\ Len(pending') = Len(pending) + 1
            /\ Len(messages') = Len(messages) + 1
            /\ IsUser(Last(messages'))
       /\ \A i \in 1..Len(pending), outcome \in LiveOutcomes :
            Response(i, outcome) => pending' = RemoveAt(pending, i)]_vars

\* useRealChat's call came back with the rate-limit error: the apology is
\* the last message and no call is in flight
C17_Witness ==
    /\ hook = HookReal
    /\ Len(messages) = 2
    /\ Last(messages) = RealAssistantMessage(ErrorOutcome(ErrRateLimit))
    /\ pending = <<>>
    /\ ~isLoading

\* the sentence getErrorMessage has for a failure of the wrapper
CategorySentence(err) ==
    IF err = ErrInvalidKey THEN {"There seems to be an authentication issue."}
    ELSE IF err = ErrRateLimit THEN {"I need to slow down a bit due to high usage."}
    ELSE IF err = ErrUnavailable THEN {"The AI service is temporarily unavailable."}
    ELSE IF err = ErrNetwork THEN {"There seems to be a connection issue."}
    ELSE {"There seems to be an authentication issue.",
          "I need to slow down a bit due to high usage.",
          "The AI service is temporarily unavailable.",
          "There seems to be a connection issue.",
          "Something unexpected happened."}

\* C18: when the completion wrapper reports a failure, the assistant message
\* useRealChat.sendMessage appends holds the sentence of that failure's
\* category (the wrapper has no failure that getErrorMessage gives a sentence
\* of its own for quota, so any sentence is taken for it) and not the
\* wrapper's error text.
C18_CategorySentence ==
    [][\A i \in 1..Len(pending), err \in WrapperErrors :
         hook = HookReal /\ Response(i, ErrorOutcome(err)) =>
            LET said == Last(messages').content
            IN /\ \E k \in 1..Len(said) : said[k] \in CategorySentence(err)
               /\ ~Includes(said, err)]_vars

\* an object with a string content and a string role among system, user and
\* assistant
WellFormedMessage(e) ==
    /\ e.t = "object"
    /\ "role" \in DOMAIN e /\ "content" \in DOMAIN e
    /\ e.role.t = "string" /\ e.content.t = "string"
    /\ e.role.str \in {SystemRole, UserRole, AssistantRole}

\* C19: validateMessages returns true exactly when its argument is an array
\* whose every element is an object with a string content and a string role
\* among system, user and assistant: one element with another role, without
\* role, without content, or that is no object makes it return false.
C19_ValidateMessages ==
    util.fn = "validateMessages" =>
        (util.result <=>
            /\ util.messages.t = "array"
            /\ \A i \in 1..Len(util.messages.items) :
                  WellFormedMessage(util.messages.items[i]))

\* a list of a valid message followed by one without content is rejected
C19_Witness ==
    /\ util.fn = "validateMessages"
    /\ util.messages = JsArray(<<JsMessage(JsString(SystemRole), JsString(TxtHello)),
                                 [t |-> "object", role |-> JsString(UserRole)]>>)
    /\ util.result = FALSE

WellFormedPrefs(labels) ==
    /\ Len(labels) <= 2
    /\ \A i, j \in 1..Len(labels) : labels[i] = labels[j] => i = j
    /\ \A i \in 1..Len(labels) : Trim(labels[i]) # <<>>

\* C21: in every state reached from a clean start the preference list, in
\* memory and under sveti-game-prefs, has at most two labels, no label twice
\* and no empty or whitespace-only label.
C21_PrefsWellFormed ==
    /\ WellFormedPrefs(gamePrefs)
    /\ storage[LS_KEYS.prefs].kind = "labels"
          => WellFormedPrefs(storage[LS_KEYS.prefs].items)

\* the reply "Uno, ,Uno,Go" was accepted: one label is stored
C21_Witness ==
    /\ \E k \in 1..Len(messages) : messages[k].content = TxtBlankAmongLabels
    /\ gamePrefs = <<<<"U", "n", "o">>>>
    /\ storage[LS_KEYS.prefs].kind = "labels"
    /\ storage[LS_KEYS.prefs].items = gamePrefs

\* C22: every completion request is the system message followed by at most
\* ContextWindow conversation messages, none of them a system message; they
\* are the most recent messages of the conversation, in its order, and the
\* last is the user message just submitted.
C22_RequestShape ==
    [][Len(pending') = Len(pending) + 1 =>
        LET call == Last(pending')
            n == Len(call.context)
        IN /\ n <= ContextWindow
           /\ n > 0
           /\ \A j \in 1..n : call.context[j].role # "system"
           /\ n <= Len(messages')
           /\ call.context = SeqMap(ApiMessage, SliceLast(messages', n))
           /\ Last(call.context).role = "user"]_vars

\* the role description written for a subject of the subject select
RoleDescription(subj) ==
    IF subj = "algebra" THEN "systemPrompts.algebra.base" ELSE "systemPrompts.ela.base"

\* C23: the system text of a completion request starts with the role
\* description of the selected subject (algebra or english), and the
\* sub-instruction of the action label follows it exactly when the label is
\* one of that subject's actions.
C23_SubjectPrompt ==
    \A i \in 1..Len(pending) :
        LET call == pending[i]
            subj == call.inputs.subject
            actionType == call.inputs.actionType
        IN /\ call.system[1] = RoleDescription(subj)
           /\ (actionType # Null /\ actionType \in getActionChips(subj))
                 <=> call.system[2] = "SPECIAL INSTRUCTION FOR THIS INTERACTION:"

\* the topic of a text by the priority of the keywords: percent change,
\* then ratio, then linear
TopicByPriority(text) ==
    LET lowered == ToLowerCase(text)
        has(word) == Includes(lowered, word)
    IN IF has(<<"%">>) \/ has(<<"p", "e", "r", "c", "e", "n", "t">>)
          \/ has(<<"d", "i", "s", "c", "o", "u", "n", "t">>)
       THEN "percentChange"
       ELSE IF has(<<"r", "a", "t", "i", "o">>)
               \/ has(<<"p", "r", "o", "p", "o", "r", "t", "i", "o", "n">>)
       THEN "ratios"
       ELSE IF has(<<"l", "i", "n", "e", "a", "r">>) \/ has(<<"s", "l", "o", "p", "e">>)
               \/ has(<<"y", "=">>)
       THEN "linearEq"
       ELSE Null

\* the topic templates in a system text
TemplatesIn(system) ==
    {topicKey \in {"percentChange", "ratios", "linearEq"} :
        \E k \in 1..Len(system) : system[k] = "GAME_TEMPLATES." \o topicKey \o "("}

\* C24: the system text composed for a send with a known game holds the
\* template of the topic of the just-submitted text, chosen by the priority
\* percent change, ratio, linear, and no template when the text has no keyword.
C24_TopicOfSubmitted ==
    \A i \in 1..Len(pending) :
        LET call == pending[i]
            topicKey == TopicByPriority(call.inputs.text)
        IN hook # HookReal /\ call.inputs.gamePrefs # <<>>
              => TemplatesIn(call.system) = IF topicKey = Null THEN {} ELSE {topicKey}

IsQuestion(msg) == msg.role = "assistant" /\ msg.content = AskContent

\* C25: in a conversation that was never reset the clarifying question was
\* appended at most once, whatever was sent and replied.
C25_QuestionOnce == Len(SeqFilter(IsQuestion, messages)) <= 1

\* the first two labels of a reply, none when it has a negation word
ReplyLabels(content) ==
    IF HasNegation(ToLowerCase(content)) THEN <<>>
    ELSE SliceFirst(Labels(content), 2)

\* the labels without their filler words, those that are only filler dropped
Cleaned(labels) == SeqFilter(NonEmpty, SeqMap(CleanGame, labels))

Elements(q) == {q[k] : k \in 1..Len(q)}

\* what the reply to the clarifying question does, given the labels the
\* acknowledgment of an accepted reply names
ReplyAcknowledged(content, named) ==
    LET labels == ReplyLabels(content)
    IN /\ pending' = pending
       /\ Len(messages') = Len(messages) + 1
       /\ Last(messages').role = "user"
       /\ Len(timers') = Len(timers) + 1
       /\ Last(timers').gate = "ack"
       /\ Last(timers').content =
             IF labels # <<>> THEN AckAccepted(Join(named, <<",", " ">>))
             ELSE AckDeclined
       /\ Elements(gamePrefs') = Elements(labels)
       /\ prefersGames' = IF labels # <<>> THEN "true" ELSE "false"

AckAppended ==
    (TimerFire /\ Head(timers).gate = "ack")
        => /\ Len(messages') = Len(messages) + 1
           /\ SubSeq(messages', 1, Len(messages)) = messages
           /\ Last(messages').role = "assistant"
           /\ Last(messages').content = Head(timers).content
           /\ timers' = Tail(timers)

\* C26 as stated: the reply to the clarifying question starts no completion
\* call and sets one delayed acknowledgment, "Got it" naming the cleaned
\* labels or "No problem"; the preference list keeps the labels as parsed;
\* when the delay ends that acknowledgment is appended.
C26_AsStated ==
    [][/\ \A content \in PrefTexts :
            (hook = HookFixed /\ AwaitingFirstReply /\ SendStep(content))
                => ReplyAcknowledged(content, Cleaned(ReplyLabels(content)))
       /\ AckAppended]_vars

\* C26: the reply to the clarifying question starts no completion call and
\* sets one delayed acknowledgment, "Got it" naming the cleaned labels (the
\* labels as parsed when cleaning leaves none) or "No problem"; the
\* preference list keeps the labels as parsed; when the delay ends that
\* acknowledgment is appended.
C26_Acknowledged ==
    [][/\ \A content \in PrefTexts :
            (hook = HookFixed /\ AwaitingFirstReply /\ SendStep(content))
                => ReplyAcknowledged(content,
                       IF Cleaned(ReplyLabels(content)) # <<>>
                       THEN Cleaned(ReplyLabels(content))
                       ELSE ReplyLabels(content))
       /\ AckAppended]_vars

\* the reply "I'm into Uno" was acknowledged with "Uno", and is the stored
\* preference as written
C26_Witness ==
    /\ hook = HookFixed
    /\ messages # <<>>
    /\ Last(messages).content = AckAccepted(<<"U", "n", "o">>)
    /\ gamePrefs = <<TxtFillerLabel>>
    /\ timers = <<>> /\ pending = <<>>

\* C27: an accepted send, a resumed completion call and a delay that ends
\* only append to the sequence in memory: the messages of before the step
\* are its first messages after the step, unchanged and in the same order.
C27_AppendOnly ==
    [][(\/ \E content \in AllTexts \cup MockTexts : SendStep(content)
        \/ \E i \in 1..Len(pending) : Response(i, ContentOutcome(MockAnswer))
        \/ TimerFire)
          => /\ Len(messages') >= Len(messages)
             /\ SubSeq(messages', 1, Len(messages)) = messages]_vars

\* C28: a user message the gate took for the reply to the clarifying
\* question comes after the question in the sequence.
C28_QuestionBeforeReply ==
    \A k \in 1..Len(messages) :
        messages[k].gate = "reply" => \E j \in 1..(k - 1) : IsQuestion(messages[j])

C30_SurvivesReload ==
    /\ InitialGamePrefs(storage) = gamePrefs
    /\ InitialAsked(storage) = asked
    /\ InitialPrefers(storage) = prefersGames
    /\ (\A key \in {LS_KEYS.prefs, LS_KEYS.asked, LS_KEYS.prefers} : storage[key] = Absent)
          => ~asked /\ gamePrefs = <<>> /\ prefersGames = Null

\* the page was loaded again after the reply naming two games and before its
\* acknowledgment: the preferences and the status are those of the reply
C30_Witness ==
    /\ hook = HookFixed
    /\ messages # <<>>
    /\ Last(messages).gate = "reply"
    /\ timers = <<>>
    /\ Len(gamePrefs) = 2
    /\ asked /\ prefersGames = "true"
    /\ storage[LS_KEYS.prefs] = JsonLabels(gamePrefs)

TypeOK ==
    /\ hook \in Hooks
    /\ subject \in SubjectSet
    /\ isLoading \in BOOLEAN
    /\ prefersGames \in {Null, "true", "false"}
    /\ Len(gamePrefs) <= MaxPrefs

====
